---- MODULE Spec2Model ----
(***************************************************************************)
(* basic-docker-engine: the container runtime (run / ps / exec), the PID   *)
(* file protocol between them, and the image resolver with its registry    *)
(* pull.  Two generations of run() live in the repository: the current one *)
(* in main.go (resolves an image, copies it, launches the command) and the *)
(* layered one in unnamed/part_006 (base layer, mountLayeredFilesystem,    *)
(* PID file).  Both are modelled; a run invocation is of one generation.   *)
(*                                                                         *)
(* Each CLI invocation is its own OS process; its handler is split into    *)
(* steps at the system calls where another process can interleave.         *)
(***************************************************************************)
EXTENDS Integers, Sequences, FiniteSets, TLC

\* ------------------------------------------------------------------ bounds
LifeRuns == 1       \* run invocations in the lifecycle specification (Spec)
MaxNets == 2        \* networks in the slice at a time
MaxSaveErrs == 1    \* saveNetworks calls that fail
MaxEvents == 2      \* watch events waiting when a user changes the resource
MaxList == 2        \* layer ids in a list given to mountLayeredFilesystem
BaseRuns == 2       \* run invocations in the base layer specification (SpecBase)
TierRuns == 1       \* run invocations in the tier specification (SpecTier)
PullRuns == 2       \* run invocations in the resolver specification (SpecPull)
MaxTime == 2        \* seconds of wall clock the model covers (1..MaxTime)
MaxLayers == 2      \* layers in a registry manifest
FirstPid == 9       \* first pid the kernel hands out to a run (then 10, 11, ...)

\* -------------------------------------------------------- program constants
InitPid == 1        \* a live process no run started (the tests use os.Getpid())
DeadPid == 12345    \* a pid no process has, as in the tests' mock PID file

TestContainer == 0                      \* "test-container" of the tests
ContainerIDs == 0..MaxTime              \* t > 0 stands for "container-<t>"
NoPid == 0                              \* cmd.Process of a command not started
NoFile == <<"ENOENT">>                  \* a file that does not exist
NoDir == {"ENOENT"}                     \* a directory that does not exist

\* ----------------------------------------------------------------- strings
\* A string is a sequence of one-character strings.
DigitChars == <<"0", "1", "2", "3", "4", "5", "6", "7", "8", "9">>
Space == {" ", "\n", "\t"}

IsDigit(c) == \E i \in 1..10 : DigitChars[i] = c

DigitVal(c) == (CHOOSE i \in 1..10 : DigitChars[i] = c) - 1

\* fmt.Sprintf("%d", n) for n >= 0
RECURSIVE itoa(_)
itoa(n) == IF n < 10 THEN <<DigitChars[n + 1]>>
           ELSE itoa(n \div 10) \o <<DigitChars[(n % 10) + 1]>>

RECURSIVE TrimLeft(_)
TrimLeft(s) == IF s # <<>> /\ Head(s) \in Space THEN TrimLeft(Tail(s)) ELSE s

RECURSIVE TrimRight(_)
TrimRight(s) == IF s # <<>> /\ s[Len(s)] \in Space
                THEN TrimRight(SubSeq(s, 1, Len(s) - 1)) ELSE s

\* strings.TrimSpace
TrimSpace(s) == TrimRight(TrimLeft(s))

RECURSIVE ParseDigits(_, _)
ParseDigits(s, acc) == IF s = <<>> THEN acc
                       ELSE ParseDigits(Tail(s), acc * 10 + DigitVal(Head(s)))

\* strconv.Atoi: the value, or an error for the empty string and for any
\* character that is not a digit.
Atoi(s) == IF s # <<>> /\ \A i \in 1..Len(s) : IsDigit(s[i])
           THEN [err |-> FALSE, val |-> ParseDigits(s, 0)]
           ELSE [err |-> TRUE, val |-> 0]

\* ------------------------------------------------------------------- state
VARIABLES
    env,            \* the host: what init() probes, and isRoot, hasBusybox
    clock,          \* time.Now().Unix() as last read
    nextPid,        \* next pid the kernel hands out
    alive,          \* pids of the processes that exist
    pidFile,        \* containers/<id>/pid : NoFile or its content
    containerDir,   \* ids whose containers/<id> directory exists
    rootfs,         \* containers/<id>/rootfs : NoDir or its set of entries
    imageFS,        \* images/<name>/rootfs : NoDir or its set of entries
    layerFS,        \* layers/<layerID> : NoDir or its set of entries
    layerMeta,      \* layer ids that have a layers/<layerID>.json sidecar
    runs,           \* the run invocations
    stat,           \* the ps / getContainerStatus invocation
    exc,            \* the exec invocation
    resolved,       \* history: reference -> rootfs path of its first successful resolve
    partial,        \* history: references whose pull failed after the manifest was fetched
    mnt,            \* a mountLayeredFilesystem call on file trees with contents
    net,            \* the networks: the process's slice and networks.json
    caps,           \* a CapsuleManager
    kube,           \* the cluster's ConfigMaps and Secrets and the capsule calls on them
    oper            \* the ResourceCapsule operator, its watch and the resource it handles

vars == <<env, clock, nextPid, alive, pidFile, containerDir, rootfs, imageFS,
          layerFS, layerMeta, runs, stat, exc, resolved, partial, mnt,
          net, caps, kube, oper>>

osVars == <<nextPid, alive>>
libVars == <<net, caps, kube, oper>>
hostVars == <<env, clock, mnt, libVars>>
diskVars == <<pidFile, containerDir, rootfs, imageFS, layerFS, layerMeta>>
histVars == <<resolved, partial>>

\* ---------------------------------------------------- image references
\* An image reference is its list of "/"-separated segments:
\* <<"alpine">> is "alpine", <<"reg", "alpine">> is "reg/alpine".
PlainRef == <<"alpine">>
QualifiedRef == <<"reg", "alpine">>
ImageRefs == {PlainRef, QualifiedRef}
ImageNames == ImageRefs                 \* directories under images/
NoPath == <<>>
DefaultRegistry == "registry-1.docker.io"

\* strings.SplitN(imageName, "/", 2)
SplitN2(ref) == IF Len(ref) > 1 THEN <<<<Head(ref)>>, Tail(ref)>> ELSE <<ref>>

\* run: the directory whose existence makes the image local,
\* filepath.Join(imagesDir, imageName, "rootfs"), named by its image name
ImagePath(ref) == ref

\* run: the registry the reference is pulled from
RegistryOf(ref) == IF Len(SplitN2(ref)) > 1 THEN SplitN2(ref)[1][1] ELSE DefaultRegistry

\* run: the repository handed to Pull
RepoOf(ref) == IF Len(SplitN2(ref)) > 1 THEN SplitN2(ref)[2] ELSE ref

\* Pull: the rootfs it extracts into, filepath.Join(".../images", name, "rootfs")
PullRootFS(name) == name

\* The registries' answers to GET {base}/{repo}/manifests/latest: the JSON
\* document's "layers" array, each element an object with more than a digest.
AllDigests == <<"sha256:c", "sha256:a", "sha256:d", "sha256:b">>

ManifestJSON(registry, repo) ==
    LET ds == IF registry = DefaultRegistry
              THEN SubSeq(AllDigests, 1, MaxLayers)
              ELSE SubSeq(AllDigests, 2, MaxLayers + 1)
    IN [config |-> [digest |-> "sha256:config", size |-> 1],
        layers |-> [i \in 1..Len(ds) |-> [digest |-> ds[i], size |-> i]]]

\* FetchManifest: json.Decode into Manifest keeps the array order and of each
\* element only the digest.
DecodeManifest(json) ==
    [Config |-> json.config.digest,
     Layers |-> [i \in 1..Len(json.layers) |-> json.layers[i].digest]]

\* the entries a layer blob's tar archive holds
LayerEntries(digest) == {digest}

\* a tar archive loaded with "load"
LoadedEntries == {"bin", "etc"}

\* ------------------------------------------------------------------ layers
BaseLayerID == <<"base-layer">>
AppLayerID(cid) == <<"app-layer", cid>>
LayerIDs == {BaseLayerID} \cup {AppLayerID(t) : t \in 1..MaxTime}
BaseDirs == {"bin", "dev", "etc", "proc", "sys", "tmp"}
BaseBins == {"bin/busybox", "bin/sh", "bin/ls", "bin/echo", "bin/cat", "bin/ps"}

\* --------------------------------------------------------- run invocations
NoCid == -1

IdleRun == [pc |-> "idle", ver |-> "none", img |-> NoPath, hasCmd |-> FALSE,
            pid |-> NoPid, cid |-> NoCid, child |-> NoPid, exit |-> -1,
            local |-> FALSE, fetched |-> FALSE, sawResolved |-> FALSE, sawPartial |-> FALSE,
            path |-> NoPath, manifest |-> <<>>, idx |-> 0, events |-> <<>>,
            pullErr |-> FALSE, writeFailed |-> FALSE, tier |-> "none", ccode |-> -1,
            cg |-> "none", cause |-> "none"]

\* snap, live0 and gone0 are history: the PID file, the processes and the
\* contained processes that have ended, at the start of the invocation
IdleStat == [pc |-> "idle", id |-> NoCid, snap |-> NoFile, live0 |-> {}, gone0 |-> {}, data |-> <<>>,
             result |-> "none", exit |-> -1,
             lc |-> "idle", todo |-> <<>>, lcErr |-> FALSE, lcExit |-> -1]

IdleExec == [pc |-> "idle", id |-> NoCid, snap |-> NoFile, live0 |-> {}, pid |-> <<>>,
             executed |-> FALSE, exit |-> -1]

\* what a test or an earlier session left in containers/test-container/pid
ForeignPidFiles == {itoa(DeadPid) \o <<"\n">>}

\* ---------------------------------------------------------- file trees
\* A directory tree with contents, for mountLayeredFilesystem: the paths
\* below its root, each absent ("none"), a directory ("dir") or a regular
\* file with its content.
Paths == {"d", "d/f", "g"}
Parent(p) == IF p = "d/f" THEN "d" ELSE "."
Contents == {"a", "b"}
Entries == {"none", "dir"} \cup Contents

\* the trees a file system can hold: an entry has a directory above it
Trees == {t \in [Paths -> Entries] :
            \A p \in Paths : (t[p] # "none" /\ Parent(p) # ".") => t[Parent(p)] = "dir"}
EmptyTree == [p \in Paths |-> "none"]

\* a directory path: it does not exist, or it holds a tree
Missing == [exists |-> FALSE, e |-> EmptyTree]
Dir(t) == [exists |-> TRUE, e |-> t]
Dirs == {Missing} \cup {Dir(t) : t \in Trees}

\* names under layersDir
LayerNames == {"l1", "l2"}

\* no mountLayeredFilesystem call
IdleMount == [pc |-> "idle", store |-> [l \in LayerNames |-> Missing], layers |-> <<>>,
              i |-> 1, T |-> Missing, T0 |-> Missing, err |-> FALSE]

\* ------------------------------------------------------------ libraries
\* no network made, no networks.json
NoNetFile == [exists |-> FALSE, nets |-> <<>>]
IdleNet == [ver |-> "none", mem |-> <<>>, file |-> NoNetFile, registered |-> 0,
            ping |-> <<>>, saveErrs |-> 0]

\* NewCapsuleManager: an empty map; added is the history of AddCapsule calls,
\* the last one of each (name, version); got is the last GetCapsule
IdleCaps == [Capsules |-> {}, added |-> {}, got |-> <<>>]
\* a namespace with no ConfigMap and no Secret; deleted is the history of the
\* (name, version) pairs DeleteCapsule returned nil for, none created since
IdleKube == [configMaps |-> {}, secrets |-> {}, deleted |-> {}]
\* no operator process; no ResourceCapsule and no ConfigMap in the namespace
NoResource == [exists |-> FALSE, phase |-> ""]
OperNames == {"r1", "r2"}
IdleOper == [proc |-> "none", watch |-> "none", loop |-> "none", stopped |-> FALSE,
             events |-> <<>>, res |-> [n \in OperNames |-> NoResource],
             configMaps |-> {}, activated |-> {}]

LibIdle == net = IdleNet /\ caps = IdleCaps /\ kube = IdleKube /\ oper = IdleOper

\* the environments init() can find: the three probed flags, and what the
\* probes do not look at: isRoot, the launcher has CAP_SYS_ADMIN (the probe
\* is "unshare --user", which needs none), and hasBusybox, exec.LookPath
\* finds busybox
Envs == [inContainer : BOOLEAN, hasNamespacePrivileges : BOOLEAN, hasCgroupAccess : BOOLEAN,
         isRoot : BOOLEAN, hasBusybox : BOOLEAN]

\* The state before the first invocation: envs are the environments, loaded
\* the sets of images "load" has put under images/, n the run invocations,
\* t0 the second it is.
InitWith(envs, loaded, n, t0) ==
    /\ mnt = IdleMount
    /\ LibIdle
    /\ env \in envs
    /\ clock = t0
    /\ nextPid = FirstPid
    /\ alive = {InitPid}
    /\ \E c \in ForeignPidFiles :
          pidFile = [id \in ContainerIDs |-> IF id = TestContainer THEN c ELSE NoFile]
    /\ containerDir = {TestContainer}
    /\ rootfs = [id \in ContainerIDs |-> NoDir]
    /\ \E l \in loaded :
          imageFS = [name \in ImageNames |-> IF name \in l THEN LoadedEntries ELSE NoDir]
    /\ layerFS = [l \in LayerIDs |-> NoDir]
    /\ layerMeta = {}
    /\ runs = [r \in 1..n |-> IdleRun]
    /\ stat = IdleStat
    /\ exc = IdleExec
    /\ resolved = [ref \in ImageRefs |-> NoPath]
    /\ partial = {}

\* Lifecycle: the image is there, the host grants namespaces, has no control
\* groups and is not itself a container
Init == InitWith({e \in Envs : /\ ~e.inContainer /\ ~e.hasCgroupAccess /\ e.hasNamespacePrivileges
                                /\ e.isRoot /\ e.hasBusybox},
                 {{PlainRef}}, LifeRuns, 1)

\* Resolver: a bare host on which "alpine" may or may not have been loaded,
\* in the last second the model covers
InitPull == InitWith({e \in Envs : /\ ~e.inContainer /\ ~e.hasCgroupAccess /\ ~e.hasNamespacePrivileges
                                    /\ e.isRoot /\ e.hasBusybox},
                     SUBSET {PlainRef}, PullRuns, MaxTime)

\* os.Exit(code) of a run invocation: the launcher process is gone
Exit(r, code, upd) ==
    /\ runs' = [runs EXCEPT ![r] = [upd EXCEPT !.pc = "exited", !.exit = code]]
    /\ alive' = alive \ {runs[r].pid}

\* os.Exit(1) after a system call or a helper returned an error
Fail(r, upd) == Exit(r, 1, [upd EXCEPT !.cause = "io"])

\* main: "run" starts a launcher process; Versions are the two run() bodies
Versions == {"main", "part006"}

run_Start(r, ver, img, hasCmd) ==
    /\ runs[r].pc = "idle"
    /\ r > 1 => runs[r - 1].pc # "idle"
    /\ runs' = [runs EXCEPT ![r] = [@ EXCEPT !.pc = IF ver = "main" THEN "stat_image" ELSE "gen_id",
                                             !.ver = ver, !.img = img, !.hasCmd = hasCmd,
                                             !.pid = nextPid]]
    /\ alive' = alive \cup {nextPid}
    /\ nextPid' = nextPid + 1
    /\ UNCHANGED <<hostVars, diskVars, stat, exc, histVars>>

\* main.go run: os.Stat(imagePath) decides between the local image and a pull
run_StatImage(r) ==
    /\ runs[r].pc = "stat_image" /\ runs[r].ver = "main"
    /\ LET ref == runs[r].img
           seen == resolved[ref] # NoPath
       IN IF imageFS[ImagePath(ref)] # NoDir
          THEN /\ runs' = [runs EXCEPT ![r] = [@ EXCEPT !.pc = "mk_rootfs", !.local = TRUE,
                                                   !.sawResolved = seen,
                                                   !.sawPartial = ref \in partial,
                                                   !.path = ImagePath(ref)]]
               /\ resolved' = IF seen THEN resolved
                              ELSE [resolved EXCEPT ![ref] = ImagePath(ref)]
          ELSE /\ runs' = [runs EXCEPT ![r] = [@ EXCEPT !.pc = "pull_manifest", !.fetched = TRUE,
                                                   !.sawResolved = seen]]
               /\ UNCHANGED resolved
    /\ UNCHANGED <<hostVars, osVars, diskVars, stat, exc, partial>>

\* Pull: registry.FetchManifest(repo, tag)
Pull_FetchManifest(r) ==
    /\ runs[r].pc = "pull_manifest"
    /\ \/ /\ runs' = [runs EXCEPT ![r] = [@ EXCEPT !.pc = "pull_mkdir",
                 !.manifest = DecodeManifest(ManifestJSON(RegistryOf(runs[r].img), RepoOf(runs[r].img))).Layers]]
          /\ UNCHANGED alive
       \/ Exit(r, 1, [runs[r] EXCEPT !.pullErr = TRUE])
    /\ UNCHANGED <<hostVars, nextPid, diskVars, stat, exc, histVars>>

\* Pull: os.MkdirAll(rootfs)
Pull_MkdirAll(r) ==
    /\ runs[r].pc = "pull_mkdir"
    /\ LET name == PullRootFS(RepoOf(runs[r].img))
       IN \/ /\ imageFS' = [imageFS EXCEPT ![name] = IF @ = NoDir THEN {} ELSE @]
             /\ runs' = [runs EXCEPT ![r] = [@ EXCEPT !.pc = "pull_fetch", !.idx = 1]]
             /\ UNCHANGED <<alive, partial>>
          \/ /\ Exit(r, 1, [runs[r] EXCEPT !.pullErr = TRUE])
             /\ UNCHANGED <<imageFS, partial>>
    /\ UNCHANGED <<hostVars, nextPid, pidFile, containerDir, rootfs, layerFS, layerMeta,
                   stat, exc, resolved>>

\* Pull walking the manifest from its last layer to its first
Pull_NextLayer_Reversed(man, i) == man[Len(man) + 1 - i]

\* Pull: the next layer of the loop, registry.FetchLayer(repo, layer.Digest);
\* past the last layer Pull returns the Image and run continues with its RootFS
Pull_NextLayer(man, i) == man[i]

Pull_FetchLayer(r) ==
    /\ runs[r].pc = "pull_fetch"
    /\ LET ref == runs[r].img
           name == PullRootFS(RepoOf(ref))
       IN IF runs[r].idx > Len(runs[r].manifest)
          THEN /\ runs' = [runs EXCEPT ![r] = [@ EXCEPT !.pc = "mk_rootfs", !.path = name]]
               /\ resolved' = IF resolved[ref] # NoPath THEN resolved
                              ELSE [resolved EXCEPT ![ref] = name]
               /\ partial' = partial \ {ref}
               /\ UNCHANGED alive
          ELSE \/ /\ runs' = [runs EXCEPT ![r] = [@ EXCEPT !.pc = "pull_extract",
                         !.events = Append(@, <<"fetch", Pull_NextLayer(runs[r].manifest, runs[r].idx)>>)]]
                  /\ UNCHANGED <<alive, histVars>>
               \/ /\ Exit(r, 1, [runs[r] EXCEPT !.pullErr = TRUE])
                  /\ partial' = partial \cup {ref}
                  /\ UNCHANGED resolved
    /\ UNCHANGED <<hostVars, nextPid, diskVars, stat, exc>>

\* Pull going on to the next layer when an extraction failed
extractLayer_ErrorIgnored(r) ==
    /\ runs[r].pc = "pull_extract"
    /\ LET ref == runs[r].img
           name == PullRootFS(RepoOf(ref))
           d == Pull_NextLayer(runs[r].manifest, runs[r].idx)
       IN \/ /\ imageFS' = [imageFS EXCEPT ![name] =
                               (IF @ = NoDir THEN {} ELSE @) \cup LayerEntries(d)]
             /\ runs' = [runs EXCEPT ![r] = [@ EXCEPT !.pc = "pull_fetch", !.idx = @ + 1,
                                                 !.events = Append(@, <<"extract", d>>)]]
             /\ UNCHANGED <<alive, partial>>
          \/ /\ runs' = [runs EXCEPT ![r] = [@ EXCEPT !.pc = "pull_fetch", !.idx = @ + 1,
                                                 !.pullErr = TRUE]]
             /\ partial' = partial \cup {ref}
             /\ UNCHANGED <<alive, imageFS>>
    /\ UNCHANGED <<hostVars, nextPid, pidFile, containerDir, rootfs, layerFS, layerMeta,
                   stat, exc, resolved>>

\* Pull: extractLayer(layerReader, rootfs), tar -x -C rootfs
extractLayer(r) ==
    /\ runs[r].pc = "pull_extract"
    /\ LET ref == runs[r].img
           name == PullRootFS(RepoOf(ref))
           d == Pull_NextLayer(runs[r].manifest, runs[r].idx)
       IN \/ /\ imageFS' = [imageFS EXCEPT ![name] =
                               (IF @ = NoDir THEN {} ELSE @) \cup LayerEntries(d)]
             /\ runs' = [runs EXCEPT ![r] = [@ EXCEPT !.pc = "pull_fetch", !.idx = @ + 1,
                                                 !.events = Append(@, <<"extract", d>>)]]
             /\ UNCHANGED <<alive, partial>>
          \/ /\ Exit(r, 1, [runs[r] EXCEPT !.pullErr = TRUE])
             /\ partial' = partial \cup {ref}
             /\ UNCHANGED imageFS
    /\ UNCHANGED <<hostVars, nextPid, pidFile, containerDir, rootfs, layerFS, layerMeta,
                   stat, exc, resolved>>

\* ------------------------------------------------- main.go run, after resolve
\* run: containerID := "container-<seconds>" from time.Now().Unix(), which
\* is the second of the last reading or a later one; os.MkdirAll(rootfs)
run_MkRootfs(r) ==
    /\ runs[r].pc = "mk_rootfs"
    /\ \E now \in clock..MaxTime :
          /\ clock' = now
          /\ \/ /\ runs' = [runs EXCEPT ![r] = [@ EXCEPT !.pc = "copy", !.cid = now]]
                /\ containerDir' = containerDir \cup {now}
                /\ rootfs' = [rootfs EXCEPT ![now] = IF @ = NoDir THEN {} ELSE @]
                /\ UNCHANGED alive
             \/ /\ Fail(r, [runs[r] EXCEPT !.cid = now])
                /\ UNCHANGED <<containerDir, rootfs>>
    /\ UNCHANGED <<env, mnt, libVars, nextPid, pidFile, imageFS, layerFS, layerMeta, stat, exc, histVars>>

\* run: copyDir(imagePath, rootfs)
run_CopyDir(r) ==
    /\ runs[r].pc = "copy"
    /\ LET src == imageFS[runs[r].path]
       IN \/ /\ src # NoDir
             /\ rootfs' = [rootfs EXCEPT ![runs[r].cid] = (IF @ = NoDir THEN {} ELSE @) \cup src]
             /\ runs' = [runs EXCEPT ![r] = [@ EXCEPT !.pc = "launch"]]
             /\ UNCHANGED alive
          \/ /\ Fail(r, runs[r])
             /\ UNCHANGED rootfs
    /\ UNCHANGED <<hostVars, nextPid, pidFile, containerDir, imageFS, layerFS, layerMeta,
                   stat, exc, histVars>>

\* what the launch function does about control groups: runWithNamespaces
\* calls setupCgroups when hasCgroupAccess, runWithoutNamespaces never does
CgroupStep(tier, e) ==
    IF tier = "full" THEN (IF e.hasCgroupAccess THEN "set" ELSE "skipped") ELSE "untried"

\* cmd.Run() up to the fork: the child exists and the launcher waits for it
StartChild(r, tier) ==
    /\ runs' = [runs EXCEPT ![r] = [@ EXCEPT !.pc = "wait", !.child = nextPid, !.tier = tier,
                                        !.cg = CgroupStep(tier, env)]]
    /\ alive' = alive \cup {nextPid}
    /\ nextPid' = nextPid + 1

\* run: the command check, then runWithoutNamespaces(containerID, rootfs, ...)
run_Launch(r) ==
    /\ runs[r].pc = "launch" /\ runs[r].ver = "main"
    /\ IF ~runs[r].hasCmd
       THEN Exit(r, 1, [runs[r] EXCEPT !.cause = "usage"]) /\ UNCHANGED nextPid
       ELSE \/ StartChild(r, "none")
            \/ Fail(r, runs[r]) /\ UNCHANGED nextPid
    /\ UNCHANGED <<hostVars, diskVars, stat, exc, histVars>>

\* cmd.Run() after the fork: Wait returns once the child is gone; a failed
\* command is os.Exit(1), a successful one lets run and main return
run_Wait(r) ==
    /\ runs[r].pc = "wait"
    /\ runs[r].child \notin alive
    /\ Exit(r, IF runs[r].ccode = 0 THEN 0 ELSE 1, runs[r])
    /\ UNCHANGED <<hostVars, nextPid, diskVars, stat, exc, histVars>>

\* ----------------------------------------------------- unnamed/part_006 run
\* run: containerID := "container-<seconds>" from time.Now().Unix()
run006_GenID(r) ==
    /\ runs[r].pc = "gen_id"
    /\ \E now \in clock..MaxTime :
          /\ clock' = now
          /\ runs' = [runs EXCEPT ![r] = [@ EXCEPT !.pc = "stat_image006", !.cid = now]]
    /\ UNCHANGED <<env, mnt, libVars, osVars, diskVars, stat, exc, histVars>>

\* run: os.Stat(imagePath), fetchImage (a placeholder that fetches nothing)
run006_StatImage(r) ==
    /\ runs[r].pc = "stat_image006"
    /\ runs' = [runs EXCEPT ![r] = [@ EXCEPT !.pc = "base_stat",
                                        !.local = imageFS[ImagePath(runs[r].img)] # NoDir]]
    /\ UNCHANGED <<hostVars, osVars, diskVars, stat, exc, histVars>>

\* run: os.Stat(baseLayerPath)
run006_BaseStat(r) ==
    /\ runs[r].pc = "base_stat"
    /\ runs' = [runs EXCEPT ![r] = [@ EXCEPT !.pc = IF layerFS[BaseLayerID] = NoDir
                                                    THEN "base_mkdir" ELSE "chmod"]]
    /\ UNCHANGED <<hostVars, osVars, diskVars, stat, exc, histVars>>

\* run: os.MkdirAll(baseLayerPath)
run006_BaseMkdir(r) ==
    /\ runs[r].pc = "base_mkdir"
    /\ \/ /\ layerFS' = [layerFS EXCEPT ![BaseLayerID] = IF @ = NoDir THEN {} ELSE @]
          /\ runs' = [runs EXCEPT ![r] = [@ EXCEPT !.pc = "base_dirs"]]
          /\ UNCHANGED alive
       \/ Fail(r, runs[r]) /\ UNCHANGED layerFS
    /\ UNCHANGED <<hostVars, nextPid, pidFile, containerDir, rootfs, imageFS, layerMeta,
                   stat, exc, histVars>>

\* initializeBaseLayer: the directory skeleton
initializeBaseLayer_Dirs(r) ==
    /\ runs[r].pc = "base_dirs"
    /\ \/ /\ layerFS' = [layerFS EXCEPT ![BaseLayerID] = @ \cup BaseDirs]
          /\ runs' = [runs EXCEPT ![r] = [@ EXCEPT !.pc = "base_bins"]]
          /\ UNCHANGED alive
       \/ Fail(r, runs[r]) /\ UNCHANGED layerFS
    /\ UNCHANGED <<hostVars, nextPid, pidFile, containerDir, rootfs, imageFS, layerMeta,
                   stat, exc, histVars>>

\* fallbackToHostBinaries: what it can leave in bin/, every command it finds
\* on the host; one it does not find is skipped with a warning
fallbackToHostBinaries == {BaseBins \ {"bin/busybox"}, {"bin/sh"}, {}}

\* initializeBaseLayer: busybox, its symlinks and the verification, or
\* without busybox fallbackToHostBinaries; must() turns an error into
\* os.Exit(1)
initializeBaseLayer_Bins(r) ==
    /\ runs[r].pc = "base_bins"
    /\ \/ /\ \E bins \in (IF env.hasBusybox THEN {BaseBins} ELSE fallbackToHostBinaries) :
                layerFS' = [layerFS EXCEPT ![BaseLayerID] = @ \cup bins]
          /\ runs' = [runs EXCEPT ![r] = [@ EXCEPT !.pc = "base_meta"]]
          /\ UNCHANGED alive
       \/ Fail(r, runs[r]) /\ UNCHANGED layerFS
    /\ UNCHANGED <<hostVars, nextPid, pidFile, containerDir, rootfs, imageFS, layerMeta,
                   stat, exc, histVars>>

\* saveLayerMetadata: writes layers/<id>.json; run only warns when it fails
saveLayerMetadata(id) ==
    \/ layerMeta' = layerMeta \cup {id}
    \/ UNCHANGED layerMeta

\* run: saveLayerMetadata(base layer)
run006_BaseMeta(r) ==
    /\ runs[r].pc = "base_meta"
    /\ saveLayerMetadata(BaseLayerID)
    /\ runs' = [runs EXCEPT ![r] = [@ EXCEPT !.pc = "chmod"]]
    /\ UNCHANGED <<hostVars, osVars, pidFile, containerDir, rootfs, imageFS, layerFS,
                   stat, exc, histVars>>

\* run: os.Chmod(baseLayerPath), then saveLayerMetadata(app layer)
run006_AppLayer(r) ==
    /\ runs[r].pc = "chmod"
    /\ \/ /\ saveLayerMetadata(AppLayerID(runs[r].cid))
          /\ runs' = [runs EXCEPT ![r] = [@ EXCEPT !.pc = "mount"]]
          /\ UNCHANGED alive
       \/ Fail(r, runs[r]) /\ UNCHANGED layerMeta
    /\ UNCHANGED <<hostVars, nextPid, pidFile, containerDir, rootfs, imageFS, layerFS,
                   stat, exc, histVars>>

\* mountLayeredFilesystem([base-layer], rootfs): RemoveAll, MkdirAll, copyDir
\* of each layer; must() turns an error into os.Exit(1)
mountLayeredFilesystem(r) ==
    /\ runs[r].pc = "mount"
    /\ LET cid == runs[r].cid
       IN \/ /\ layerFS[BaseLayerID] # NoDir
             /\ rootfs' = [rootfs EXCEPT ![cid] = layerFS[BaseLayerID]]
             /\ containerDir' = containerDir \cup {cid}
             /\ runs' = [runs EXCEPT ![r] = [@ EXCEPT !.pc = "pid_create"]]
             /\ UNCHANGED alive
          \/ /\ Fail(r, runs[r])
             /\ rootfs' = [rootfs EXCEPT ![cid] = NoDir]
             /\ UNCHANGED containerDir
    /\ UNCHANGED <<hostVars, nextPid, pidFile, imageFS, layerFS, layerMeta, stat, exc, histVars>>

\* run: the process id that goes into the PID file, os.Getpid()
run006_PidToRecord(r) == runs[r].pid

\* os.WriteFile(pidFile, ...): open with O_CREATE|O_TRUNC
run006_CreatePidFile(r) ==
    /\ runs[r].pc = "pid_create"
    /\ \/ /\ pidFile' = [pidFile EXCEPT ![runs[r].cid] = <<>>]
          /\ runs' = [runs EXCEPT ![r] = [@ EXCEPT !.pc = "pid_write"]]
          /\ UNCHANGED alive
       \/ /\ Fail(r, [runs[r] EXCEPT !.writeFailed = TRUE])
          /\ UNCHANGED pidFile
    /\ UNCHANGED <<hostVars, nextPid, containerDir, rootfs, imageFS, layerFS, layerMeta,
                   stat, exc, histVars>>

\* os.WriteFile(pidFile, ...): write the decimal pid; an error is os.Exit(1)
run006_WritePidFile(r) ==
    /\ runs[r].pc = "pid_write"
    /\ \/ /\ pidFile' = [pidFile EXCEPT ![runs[r].cid] = itoa(run006_PidToRecord(r))]
          /\ runs' = [runs EXCEPT ![r] = [@ EXCEPT !.pc = "launch006"]]
          /\ UNCHANGED alive
       \/ /\ Fail(r, [runs[r] EXCEPT !.writeFailed = TRUE])
          /\ UNCHANGED pidFile
    /\ UNCHANGED <<hostVars, nextPid, containerDir, rootfs, imageFS, layerFS, layerMeta,
                   stat, exc, histVars>>

\* run: the isolation tier, "full" for runWithNamespaces
IsolationTier(e) == IF e.hasNamespacePrivileges /\ ~e.inContainer THEN "full" ELSE "none"

\* clone(2) with CLONE_NEWUTS|CLONE_NEWPID|CLONE_NEWNS|CLONE_NEWNET and no
\* CLONE_NEWUSER, and the chroot of SysProcAttr.Chroot, are EPERM without
\* CAP_SYS_ADMIN; a plain fork needs nothing
CanClone(tier, e) == tier = "full" => e.isRoot

\* run: without a command keep the process alive (select on a timeout);
\* otherwise runWithNamespaces (setupCgroups under must, then cmd.Run) or
\* runWithoutNamespaces (cmd.Run); "Error: ...", os.Exit(1) when cmd.Run or
\* setupCgroups returns an error
run006_Launch(r) ==
    /\ runs[r].pc = "launch006"
    /\ IF ~runs[r].hasCmd
       THEN /\ runs' = [runs EXCEPT ![r] = [@ EXCEPT !.pc = "sleep"]]
            /\ UNCHANGED osVars
       ELSE LET tier == IsolationTier(env)
            IN \/ CanClone(tier, env) /\ StartChild(r, tier)
               \/ /\ ~CanClone(tier, env)
                  /\ Exit(r, 1, [runs[r] EXCEPT !.cause = "perm", !.tier = tier,
                                                !.cg = CgroupStep(tier, env)])
                  /\ UNCHANGED nextPid
               \/ /\ CgroupStep(tier, env) = "set"
                  /\ Fail(r, [runs[r] EXCEPT !.tier = tier, !.cg = "failed"])
                  /\ UNCHANGED nextPid
               \/ Fail(r, [runs[r] EXCEPT !.tier = tier]) /\ UNCHANGED nextPid
    /\ UNCHANGED <<hostVars, diskVars, stat, exc, histVars>>

\* run: the timeout of the keep-alive fires, os.Exit(0)
run006_Timeout(r) ==
    /\ runs[r].pc = "sleep"
    /\ Exit(r, 0, runs[r])
    /\ UNCHANGED <<hostVars, nextPid, diskVars, stat, exc, histVars>>

\* ------------------------------------------------------------- environment
\* the contained process ends, by itself or by a signal
ChildExit(r, code) ==
    /\ runs[r].child \in alive
    /\ alive' = alive \ {runs[r].child}
    /\ runs' = [runs EXCEPT ![r] = [@ EXCEPT !.ccode = code]]
    /\ UNCHANGED <<hostVars, nextPid, diskVars, stat, exc, histVars>>

\* the launcher is killed while it waits (kill $container_id of the test
\* script); the contained process is not its concern any more
KillLauncher(r) ==
    /\ runs[r].pc = "wait"
    /\ alive' = alive \ {runs[r].pid}
    /\ runs' = [runs EXCEPT ![r] = [@ EXCEPT !.pc = "exited", !.exit = 143]]
    /\ UNCHANGED <<hostVars, nextPid, diskVars, stat, exc, histVars>>

\* ------------------------------------------------------ ps / status / exec
\* os.Stat("/proc/" + pid): the empty string names /proc itself; procfs has
\* an entry for the canonical decimal of every pid that exists
ProcPathExists(pid) ==
    \/ pid = <<>>
    \/ /\ ~Atoi(pid).err
       /\ itoa(Atoi(pid).val) = pid
       /\ Atoi(pid).val \in alive

\* syscall.Kill(pid, 0)
Kill0(pid) == IF pid \in alive THEN {"nil", "EPERM"} ELSE {"ESRCH"}

\* listContainers / a caller asks for the status of a container id
status_Start(id) ==
    /\ stat.pc = "idle" /\ exc.pc = "idle"
    /\ stat' = [stat EXCEPT !.pc = "read", !.id = id, !.snap = pidFile[id], !.live0 = alive,
                           !.gone0 = {runs[r].child : r \in DOMAIN runs} \ (alive \cup {NoPid})]
    /\ UNCHANGED <<hostVars, osVars, diskVars, runs, exc, histVars>>

\* getContainerStatus with the read error taken for a running container
getContainerStatus_ReadFile_Inverted ==
    /\ stat.pc = "read"
    /\ stat' = IF pidFile[stat.id] = NoFile
               THEN [stat EXCEPT !.pc = "done", !.result = "Running", !.exit = 0]
               ELSE [stat EXCEPT !.pc = "stat", !.data = pidFile[stat.id]]
    /\ UNCHANGED <<hostVars, osVars, diskVars, runs, exc, histVars>>

\* getContainerStatus: os.ReadFile(pidFile)
getContainerStatus_ReadFile ==
    /\ stat.pc = "read"
    /\ stat' = IF pidFile[stat.id] = NoFile
               THEN [stat EXCEPT !.pc = "done", !.result = "Stopped", !.exit = 0]
               ELSE [stat EXCEPT !.pc = "stat", !.data = pidFile[stat.id]]
    /\ UNCHANGED <<hostVars, osVars, diskVars, runs, exc, histVars>>

\* getContainerStatus: os.Stat("/proc/<pid>")
getContainerStatus_Stat ==
    /\ stat.pc = "stat"
    /\ stat' = IF ~ProcPathExists(TrimSpace(stat.data))
               THEN [stat EXCEPT !.pc = "done", !.result = "Stopped", !.exit = 0]
               ELSE [stat EXCEPT !.pc = "kill"]
    /\ UNCHANGED <<hostVars, osVars, diskVars, runs, exc, histVars>>

\* getContainerStatus: syscall.Kill(atoi(pid), 0); atoi is os.Exit(1) on a
\* string that is not a number
getContainerStatus_Kill ==
    /\ stat.pc = "kill"
    /\ LET n == Atoi(TrimSpace(stat.data))
       IN IF n.err
          THEN stat' = [stat EXCEPT !.pc = "done", !.result = "none", !.exit = 1]
          ELSE \E e \in Kill0(n.val) :
                  stat' = [stat EXCEPT !.pc = "done", !.exit = 0,
                              !.result = IF e = "ESRCH" THEN "Stopped" ELSE "Running"]
    /\ UNCHANGED <<hostVars, osVars, diskVars, runs, exc, histVars>>

\* main: "exec <container-id> <command>"
execCommand_Start(id) ==
    /\ exc.pc = "idle" /\ stat.pc = "idle"
    /\ exc' = [exc EXCEPT !.pc = "check_dir", !.id = id, !.snap = pidFile[id], !.live0 = alive]
    /\ UNCHANGED <<hostVars, osVars, diskVars, runs, stat, histVars>>

\* execCommand: os.Stat(containerDir)
execCommand_StatDir ==
    /\ exc.pc = "check_dir"
    /\ exc' = IF exc.id \notin containerDir
              THEN [exc EXCEPT !.pc = "done", !.exit = 1]
              ELSE [exc EXCEPT !.pc = "read"]
    /\ UNCHANGED <<hostVars, osVars, diskVars, runs, stat, histVars>>

\* execCommand: os.ReadFile(pidFile)
execCommand_ReadFile ==
    /\ exc.pc = "read"
    /\ exc' = IF pidFile[exc.id] = NoFile
              THEN [exc EXCEPT !.pc = "done", !.exit = 1]
              ELSE [exc EXCEPT !.pc = "stat", !.pid = TrimSpace(pidFile[exc.id])]
    /\ UNCHANGED <<hostVars, osVars, diskVars, runs, stat, histVars>>

\* execCommand without the check of /proc/<pid>
execCommand_StatProc_Unchecked ==
    /\ exc.pc = "stat"
    /\ exc' = [exc EXCEPT !.pc = "nsenter"]
    /\ UNCHANGED <<hostVars, osVars, diskVars, runs, stat, histVars>>

\* execCommand: os.Stat("/proc/<pid>")
execCommand_StatProc ==
    /\ exc.pc = "stat"
    /\ exc' = IF ~ProcPathExists(exc.pid)
              THEN [exc EXCEPT !.pc = "done", !.exit = 1]
              ELSE [exc EXCEPT !.pc = "nsenter"]
    /\ UNCHANGED <<hostVars, osVars, diskVars, runs, stat, histVars>>

\* execCommand: nsenter --mount=/proc/<pid>/ns/mnt --pid=/proc/<pid>/ns/pid;
\* it needs the namespace files of an existing process, runs the command and
\* hands back its result; any error is os.Exit(1)
execCommand_Nsenter ==
    /\ exc.pc = "nsenter"
    /\ \/ /\ exc.pid # <<>> /\ ProcPathExists(exc.pid)
          /\ \E code \in {0, 1} :
                exc' = [exc EXCEPT !.pc = "done", !.executed = TRUE, !.exit = code]
       \/ exc' = [exc EXCEPT !.pc = "done", !.exit = 1]
    /\ UNCHANGED <<hostVars, osVars, diskVars, runs, stat, histVars>>

\* ----------------------------------------------------------- specification
\* the shell has collected the exit status of a run and keeps nothing of it
ReapedRun == [IdleRun EXCEPT !.pc = "exited"]

Reap(r) ==
    /\ runs[r].pc = "exited" /\ runs[r] # ReapedRun
    /\ runs' = [runs EXCEPT ![r] = ReapedRun]
    /\ UNCHANGED <<hostVars, osVars, diskVars, stat, exc, histVars>>

\* the shell starts one run after the other
Sequential(r) == r > 1 => runs[r - 1] = ReapedRun

\* Lifecycle: runs of either generation on a local image, one after the
\* other, and one ps or exec beside them
Next ==
    \/ \E r \in DOMAIN runs, ver \in Versions, hasCmd \in BOOLEAN :
          Sequential(r) /\ run_Start(r, ver, PlainRef, hasCmd)
    \/ \E r \in DOMAIN runs : run_StatImage(r)
    \/ \E r \in DOMAIN runs : run_MkRootfs(r)
    \/ \E r \in DOMAIN runs : run_CopyDir(r)
    \/ \E r \in DOMAIN runs : run_Launch(r)
    \/ \E r \in DOMAIN runs : run_Wait(r)
    \/ \E r \in DOMAIN runs : run006_GenID(r)
    \/ \E r \in DOMAIN runs : run006_StatImage(r)
    \/ \E r \in DOMAIN runs : run006_BaseStat(r)
    \/ \E r \in DOMAIN runs : run006_BaseMkdir(r)
    \/ \E r \in DOMAIN runs : initializeBaseLayer_Dirs(r)
    \/ \E r \in DOMAIN runs : initializeBaseLayer_Bins(r)
    \/ \E r \in DOMAIN runs : run006_BaseMeta(r)
    \/ \E r \in DOMAIN runs : run006_AppLayer(r)
    \/ \E r \in DOMAIN runs : mountLayeredFilesystem(r)
    \/ \E r \in DOMAIN runs : run006_CreatePidFile(r)
    \/ \E r \in DOMAIN runs : run006_WritePidFile(r)
    \/ \E r \in DOMAIN runs : run006_Launch(r)
    \/ \E r \in DOMAIN runs : run006_Timeout(r)
    \/ \E id \in ContainerIDs : status_Start(id)
    \/ getContainerStatus_ReadFile
    \/ getContainerStatus_Stat
    \/ getContainerStatus_Kill
    \/ \E id \in ContainerIDs : execCommand_Start(id)
    \/ execCommand_StatDir
    \/ execCommand_ReadFile
    \/ execCommand_StatProc
    \/ execCommand_Nsenter
    \/ \E r \in DOMAIN runs, code \in {0, 1} : ChildExit(r, code)
    \/ \E r \in DOMAIN runs : KillLauncher(r)
    \/ \E r \in DOMAIN runs : Reap(r)

Spec == Init /\ [][Next]_vars

\* Resolver: main.go's run with a command, on either kind of reference, the
\* invocations side by side
NextPull ==
    \/ \E r \in DOMAIN runs, img \in ImageRefs : run_Start(r, "main", img, TRUE)
    \/ \E r \in DOMAIN runs : run_StatImage(r)
    \/ \E r \in DOMAIN runs : Pull_FetchManifest(r)
    \/ \E r \in DOMAIN runs : Pull_MkdirAll(r)
    \/ \E r \in DOMAIN runs : Pull_FetchLayer(r)
    \/ \E r \in DOMAIN runs : extractLayer(r)
    \/ \E r \in DOMAIN runs : run_MkRootfs(r)
    \/ \E r \in DOMAIN runs : run_CopyDir(r)
    \/ \E r \in DOMAIN runs : run_Launch(r)
    \/ \E r \in DOMAIN runs : run_Wait(r)
    \/ \E r \in DOMAIN runs : ChildExit(r, 0)

SpecPull == InitPull /\ [][NextPull]_vars

\* Tiers: the image is there; the host is any of the environments; run of
\* either generation, with or without a command, one invocation after the
\* other
InitTier == InitWith(Envs, {{PlainRef}}, TierRuns, 1)

NextTier ==
    \/ \E r \in DOMAIN runs, ver \in Versions, hasCmd \in BOOLEAN :
          Sequential(r) /\ run_Start(r, ver, PlainRef, hasCmd)
    \/ \E r \in DOMAIN runs : run_StatImage(r)
    \/ \E r \in DOMAIN runs : run_MkRootfs(r)
    \/ \E r \in DOMAIN runs : run_CopyDir(r)
    \/ \E r \in DOMAIN runs : run_Launch(r)
    \/ \E r \in DOMAIN runs : run_Wait(r)
    \/ \E r \in DOMAIN runs : run006_GenID(r)
    \/ \E r \in DOMAIN runs : run006_StatImage(r)
    \/ \E r \in DOMAIN runs : run006_BaseStat(r)
    \/ \E r \in DOMAIN runs : run006_BaseMkdir(r)
    \/ \E r \in DOMAIN runs : initializeBaseLayer_Dirs(r)
    \/ \E r \in DOMAIN runs : initializeBaseLayer_Bins(r)
    \/ \E r \in DOMAIN runs : run006_BaseMeta(r)
    \/ \E r \in DOMAIN runs : run006_AppLayer(r)
    \/ \E r \in DOMAIN runs : mountLayeredFilesystem(r)
    \/ \E r \in DOMAIN runs : run006_CreatePidFile(r)
    \/ \E r \in DOMAIN runs : run006_WritePidFile(r)
    \/ \E r \in DOMAIN runs : run006_Launch(r)
    \/ \E r \in DOMAIN runs : run006_Timeout(r)
    \/ \E r \in DOMAIN runs, code \in {0, 1} : ChildExit(r, code)
    \/ \E r \in DOMAIN runs : Reap(r)

SpecTier == InitTier /\ [][NextTier]_vars

\* Base layer: the layered run, with a command, up to the mount of its
\* rootfs; the invocations side by side, no layer on disk yet
InitBase ==
    InitWith({e \in Envs : /\ ~e.inContainer /\ ~e.hasCgroupAccess /\ e.hasNamespacePrivileges
                          /\ e.isRoot /\ e.hasBusybox},
             {{PlainRef}}, BaseRuns, MaxTime)

NextBase ==
    \/ \E r \in DOMAIN runs : run_Start(r, "part006", PlainRef, TRUE)
    \/ \E r \in DOMAIN runs : run006_GenID(r)
    \/ \E r \in DOMAIN runs : run006_StatImage(r)
    \/ \E r \in DOMAIN runs : run006_BaseStat(r)
    \/ \E r \in DOMAIN runs : run006_BaseMkdir(r)
    \/ \E r \in DOMAIN runs : initializeBaseLayer_Dirs(r)
    \/ \E r \in DOMAIN runs : initializeBaseLayer_Bins(r)
    \/ \E r \in DOMAIN runs : run006_BaseMeta(r)
    \/ \E r \in DOMAIN runs : run006_AppLayer(r)
    \/ \E r \in DOMAIN runs : mountLayeredFilesystem(r)

SpecBase == InitBase /\ [][NextBase]_vars

\* ------------------------------------------------------- listContainers
\* os.ReadDir: the entries sorted by name
RECURSIVE SortedEntries(_)
SortedEntries(S) ==
    IF S = {} THEN <<>>
    ELSE LET m == CHOOSE x \in S : \A y \in S : x <= y
         IN <<m>> \o SortedEntries(S \ {m})

\* main: "ps" calls listContainers
listContainers_Start ==
    /\ stat.lc = "idle" /\ stat.pc = "idle"
    /\ stat' = [stat EXCEPT !.lc = "stat_dir"]
    /\ UNCHANGED <<hostVars, osVars, diskVars, runs, exc, histVars>>

\* listContainers: os.Stat(containerDir); return when it does not exist
\* (with no container it may never have been made)
listContainers_StatDir ==
    /\ stat.lc = "stat_dir"
    /\ \/ /\ containerDir = {}
          /\ stat' = [stat EXCEPT !.lc = "done", !.lcExit = 0]
       \/ stat' = [stat EXCEPT !.lc = "read_dir"]
    /\ UNCHANGED <<hostVars, osVars, diskVars, runs, exc, histVars>>

\* listContainers: os.ReadDir(containerDir); on an error "Error reading
\* containers" and return, and main returns after it
listContainers_ReadDir ==
    /\ stat.lc = "read_dir"
    /\ \/ stat' = [stat EXCEPT !.lc = "loop", !.todo = SortedEntries(containerDir)]
       \/ stat' = [stat EXCEPT !.lc = "done", !.lcErr = TRUE, !.lcExit = 0]
    /\ UNCHANGED <<hostVars, osVars, diskVars, runs, exc, histVars>>

\* listContainers: status := getContainerStatus(containerID) for the next entry
listContainers_Entry ==
    /\ stat.lc = "loop" /\ stat.todo # <<>>
    /\ status_Start(Head(stat.todo))

\* listContainers: the status line is printed, on to the next entry
listContainers_Printf ==
    /\ stat.lc = "loop" /\ stat.pc = "done" /\ stat.exit = 0
    /\ stat' = [IdleStat EXCEPT !.lc = "loop", !.todo = Tail(stat.todo)]
    /\ UNCHANGED <<hostVars, osVars, diskVars, runs, exc, histVars>>

\* getContainerStatus has called os.Exit(1): the ps process is over
listContainers_Exited ==
    /\ stat.lc = "loop" /\ stat.pc = "done" /\ stat.exit # 0
    /\ stat' = [stat EXCEPT !.lc = "done", !.lcErr = TRUE, !.lcExit = stat.exit]
    /\ UNCHANGED <<hostVars, osVars, diskVars, runs, exc, histVars>>

\* listContainers: the loop is over, main returns
listContainers_Return ==
    /\ stat.lc = "loop" /\ stat.pc = "idle" /\ stat.todo = <<>>
    /\ stat' = [stat EXCEPT !.lc = "done", !.lcExit = 0]
    /\ UNCHANGED <<hostVars, osVars, diskVars, runs, exc, histVars>>

\* what a container directory can hold for a PID file: none, an empty one,
\* one of a process that is gone, one of a process that lives
PsPidFiles == {NoFile, <<>>, itoa(DeadPid) \o <<"\n">>, itoa(InitPid) \o <<"\n">>}

\* a host on which no run, ps or exec is at work and nothing is on disk
QuietHost ==
    /\ env = [inContainer |-> FALSE, hasNamespacePrivileges |-> TRUE, hasCgroupAccess |-> FALSE,
              isRoot |-> TRUE, hasBusybox |-> TRUE]
    /\ clock = 1
    /\ nextPid = FirstPid
    /\ alive = {InitPid}
    /\ pidFile = [id \in ContainerIDs |-> NoFile]
    /\ containerDir = {}
    /\ rootfs = [id \in ContainerIDs |-> NoDir]
    /\ imageFS = [name \in ImageNames |-> NoDir]
    /\ layerFS = [l \in LayerIDs |-> NoDir]
    /\ layerMeta = {}
    /\ runs = <<>>
    /\ stat = IdleStat
    /\ exc = IdleExec
    /\ resolved = [ref \in ImageRefs |-> NoPath]
    /\ partial = {}

\* Listing: one ps, on any containers directory, no run at work
InitPs ==
    /\ containerDir \in SUBSET ContainerIDs
    /\ pidFile \in [ContainerIDs -> PsPidFiles]
    /\ \A id \in ContainerIDs : id \notin containerDir => pidFile[id] = NoFile
    /\ mnt = IdleMount
    /\ LibIdle
    /\ env = [inContainer |-> FALSE, hasNamespacePrivileges |-> TRUE, hasCgroupAccess |-> FALSE,
              isRoot |-> TRUE, hasBusybox |-> TRUE]
    /\ clock = 1
    /\ nextPid = FirstPid
    /\ alive = {InitPid}
    /\ rootfs = [id \in ContainerIDs |-> NoDir]
    /\ imageFS = [name \in ImageNames |-> NoDir]
    /\ layerFS = [l \in LayerIDs |-> NoDir]
    /\ layerMeta = {}
    /\ runs = <<>>
    /\ stat = IdleStat
    /\ exc = IdleExec
    /\ resolved = [ref \in ImageRefs |-> NoPath]
    /\ partial = {}

NextPs ==
    \/ listContainers_Start
    \/ listContainers_StatDir
    \/ listContainers_ReadDir
    \/ listContainers_Entry
    \/ getContainerStatus_ReadFile
    \/ getContainerStatus_Stat
    \/ getContainerStatus_Kill
    \/ listContainers_Printf
    \/ listContainers_Exited
    \/ listContainers_Return

SpecPs == InitPs /\ [][NextPs]_vars

\* ------------------------------------------------------------- networks
\* crd_operator.go's functions, and part_008's, whose attach and detach keep
\* a list of container ids, assign no address and do not save
NetVersions == {"crd", "part008"}
NetNames == {"test-network"}
NetContainers == {"container-1", "container-2"}

\* a network id "net-<n>" is its number n
NetIDs == 1..(MaxNets + 1)

\* an address "192.168.<i>.<j>" is <<i, j>>; part_008 has none
NoIP == <<>>
NoContainers == [c \in {} |-> NoIP]

netVars == <<env, clock, mnt, caps, kube, oper, osVars, diskVars, runs, stat, exc, histVars>>

\* the index of the first network with this ID, as the range loops find it
FindNetwork(id) ==
    IF \E i \in DOMAIN net.mem : net.mem[i].ID = id
    THEN CHOOSE i \in DOMAIN net.mem :
             net.mem[i].ID = id /\ \A j \in 1..(i - 1) : net.mem[j].ID # id
    ELSE 0

\* saveNetworks: os.Create and Encode(networks); an error is printed and the
\* caller goes on, the file as it was
saveNetworks(m) ==
    {[file |-> [exists |-> TRUE, nets |-> m], saveErrs |-> net.saveErrs]}
    \cup (IF net.saveErrs < MaxSaveErrs
          THEN {[file |-> net.file, saveErrs |-> net.saveErrs + 1]} ELSE {})

\* what a decoder reads from networks.json into the empty slice
Decoded(file) == IF file.exists THEN file.nets ELSE <<>>

\* init / loadNetworks in a new process: networks starts empty and is decoded
\* from networks.json when the file is there; capsuleManager starts empty
loadNetworks ==
    /\ net.ver # "none"
    /\ net' = [net EXCEPT !.mem = Decoded(net.file), !.registered = 0, !.ping = <<>>]
    /\ net'.mem # net.mem \/ net.registered # 0 \/ net.ping # <<>>
    /\ UNCHANGED netVars

\* CreateNetwork: id "net-<len(networks)+1>", append, AddCapsule, saveNetworks
CreateNetwork(name) ==
    /\ net.ver # "none"
    /\ Len(net.mem) < MaxNets
    /\ LET id == Len(net.mem) + 1
           m == Append(net.mem, [Name |-> name, ID |-> id, Containers |-> NoContainers])
       IN \E sv \in saveNetworks(m) :
             net' = [net EXCEPT !.mem = m, !.registered = id, !.ping = <<>>,
                                !.file = sv.file, !.saveErrs = sv.saveErrs]
    /\ UNCHANGED netVars

\* DeleteNetwork: the first network with the ID is cut out, saveNetworks
DeleteNetwork(id) ==
    /\ net.ver # "none"
    /\ LET i == FindNetwork(id)
       IN /\ i # 0
          /\ LET m == SubSeq(net.mem, 1, i - 1) \o SubSeq(net.mem, i + 1, Len(net.mem))
             IN \E sv \in saveNetworks(m) :
                   net' = [net EXCEPT !.mem = m, !.ping = <<>>,
                                      !.file = sv.file, !.saveErrs = sv.saveErrs]
    /\ UNCHANGED netVars

\* the address AttachContainerToNetwork hands out in the network at index i
\* holding n containers: "192.168.<i+1>.<n+2>", i from 0
AssignIP(i, n) == <<i, n + 2>>

\* AttachContainerToNetwork: to the first network with the ID, unless the
\* container is there already; crd_operator.go saves, part_008 does not
AttachContainerToNetwork(id, c) ==
    /\ net.ver # "none"
    /\ LET i == FindNetwork(id)
       IN /\ i # 0
          /\ c \notin DOMAIN net.mem[i].Containers
          /\ LET old == net.mem[i].Containers
                 ip == IF net.ver = "crd" THEN AssignIP(i, Cardinality(DOMAIN old)) ELSE NoIP
                 new == [x \in DOMAIN old \cup {c} |-> IF x = c THEN ip ELSE old[x]]
                 m == [net.mem EXCEPT ![i].Containers = new]
             IN IF net.ver = "crd"
                THEN \E sv \in saveNetworks(m) :
                        net' = [net EXCEPT !.mem = m, !.ping = <<>>,
                                           !.file = sv.file, !.saveErrs = sv.saveErrs]
                ELSE net' = [net EXCEPT !.mem = m, !.ping = <<>>]
    /\ UNCHANGED netVars

\* DetachContainerFromNetwork: from the first network with the ID
DetachContainerFromNetwork(id, c) ==
    /\ net.ver # "none"
    /\ LET i == FindNetwork(id)
       IN /\ i # 0
          /\ c \in DOMAIN net.mem[i].Containers
          /\ LET old == net.mem[i].Containers
                 new == [x \in DOMAIN old \ {c} |-> old[x]]
                 m == [net.mem EXCEPT ![i].Containers = new]
             IN IF net.ver = "crd"
                THEN \E sv \in saveNetworks(m) :
                        net' = [net EXCEPT !.mem = m, !.ping = <<>>,
                                           !.file = sv.file, !.saveErrs = sv.saveErrs]
                ELSE net' = [net EXCEPT !.mem = m, !.ping = <<>>]
    /\ UNCHANGED netVars

\* Ping that looks for the source container only
Ping_SourceOnly(id, a, b) ==
    LET i == FindNetwork(id)
    IN i # 0 /\ a \in DOMAIN net.mem[i].Containers

\* Ping: nil when the first network with the ID holds both containers,
\* an error when it lacks one or when there is no such network
Ping(id, a, b) ==
    LET i == FindNetwork(id)
    IN i # 0 /\ a \in DOMAIN net.mem[i].Containers /\ b \in DOMAIN net.mem[i].Containers

\* main: "network-ping <network-id> <source> <target>"
network_ping(id, a, b) ==
    /\ net.ver # "none"
    /\ net' = [net EXCEPT !.ping = <<[id |-> id, a |-> a, b |-> b, ok |-> Ping(id, a, b)]>>]
    /\ UNCHANGED netVars

\* Networks: one process after the other on networks.json, each with any
\* calls; no run at work
InitNet ==
    /\ \E v \in NetVersions : net = [IdleNet EXCEPT !.ver = v]
    /\ caps = IdleCaps /\ kube = IdleKube /\ oper = IdleOper
    /\ mnt = IdleMount
    /\ QuietHost

NextNet ==
    \/ loadNetworks
    \/ \E name \in NetNames : CreateNetwork(name)
    \/ \E id \in NetIDs : DeleteNetwork(id)
    \/ \E id \in NetIDs, c \in NetContainers : AttachContainerToNetwork(id, c)
    \/ \E id \in NetIDs, c \in NetContainers : DetachContainerFromNetwork(id, c)
    \/ \E id \in NetIDs, a, b \in NetContainers : network_ping(id, a, b)

SpecNet == InitNet /\ [][NextNet]_vars

\* ------------------------------------------------------- CapsuleManager
\* names, versions and paths are strings, a string its list of characters
CapsuleNames == {<<"a">>, <<"a", ":", "b">>}
CapsuleVersions == {<<"c">>, <<"b", ":", "c">>}
CapsulePaths == {<<"p">>, <<"q">>}

capsVars == <<env, clock, mnt, net, kube, oper, osVars, diskVars, runs, stat, exc, histVars>>

\* key := name + ":" + version
CapsuleKey(name, version) == name \o <<":">> \o version

\* CapsuleManager.AddCapsule: cm.Capsules[key] = ResourceCapsule{...}
AddCapsule(name, version, path) ==
    /\ LET key == CapsuleKey(name, version)
           c == [Name |-> name, Version |-> version, Path |-> path]
       IN caps' = [caps EXCEPT
                      !.Capsules = {e \in @ : e.key # key} \cup {[key |-> key, capsule |-> c]},
                      !.added = {a \in @ : ~(a.Name = name /\ a.Version = version)} \cup {c},
                      !.got = <<>>]
    /\ UNCHANGED capsVars

\* CapsuleManager.GetCapsule: capsule, exists := cm.Capsules[key]
GetCapsule(name, version) ==
    /\ LET key == CapsuleKey(name, version)
           hit == {e \in caps.Capsules : e.key = key}
       IN caps' = [caps EXCEPT !.got = <<[name |-> name, version |-> version,
                                          exists |-> hit # {},
                                          capsules |-> {e.capsule : e \in hit}]>>]
    /\ UNCHANGED capsVars

\* Capsules: one CapsuleManager, any calls on it
InitCaps ==
    /\ caps = IdleCaps
    /\ net = IdleNet /\ kube = IdleKube /\ oper = IdleOper
    /\ mnt = IdleMount
    /\ QuietHost

NextCaps ==
    \/ \E n \in CapsuleNames, v \in CapsuleVersions, path \in CapsulePaths : AddCapsule(n, v, path)
    \/ \E n \in CapsuleNames, v \in CapsuleVersions : GetCapsule(n, v)

SpecCaps == InitCaps /\ [][NextCaps]_vars

\* ---------------------------------------------- KubernetesCapsuleManager
KubeNames == {<<"x">>, <<"y">>}
KubeVersions == {<<"1">>, <<"2">>}

kubeVars == <<env, clock, mnt, net, caps, oper, osVars, diskVars, runs, stat, exc, histVars>>

\* fmt.Sprintf("%s-%s", name, version)
ResourceName(name, version) == name \o <<"-">> \o version

\* CreateConfigMapCapsule: ConfigMaps(namespace).Create; the error of the
\* API (the name is taken, or any other) is returned and nothing is made
CreateConfigMapCapsule(name, version) ==
    /\ ResourceName(name, version) \notin kube.configMaps
    /\ kube' = [kube EXCEPT !.configMaps = @ \cup {ResourceName(name, version)},
                            !.deleted = @ \ {<<name, version>>}]
    /\ UNCHANGED kubeVars

\* CreateSecretCapsule: Secrets(namespace).Create
CreateSecretCapsule(name, version) ==
    /\ ResourceName(name, version) \notin kube.secrets
    /\ kube' = [kube EXCEPT !.secrets = @ \cup {ResourceName(name, version)},
                            !.deleted = @ \ {<<name, version>>}]
    /\ UNCHANGED kubeVars

\* GetConfigMapCapsule: err == nil
GetConfigMapCapsule(name, version) == ResourceName(name, version) \in kube.configMaps

\* GetSecretCapsule: err == nil
GetSecretCapsule(name, version) == ResourceName(name, version) \in kube.secrets

\* DeleteCapsule: delete the ConfigMap, return nil if that worked; otherwise
\* (it is not there, or the API failed) delete the Secret, return nil if
\* that worked; otherwise "not found"
DeleteCapsule(name, version) ==
    /\ LET rn == ResourceName(name, version)
       IN \/ /\ rn \in kube.configMaps
             /\ kube' = [kube EXCEPT !.configMaps = @ \ {rn},
                                     !.deleted = @ \cup {<<name, version>>}]
          \/ /\ rn \in kube.secrets
             /\ kube' = [kube EXCEPT !.secrets = @ \ {rn},
                                     !.deleted = @ \cup {<<name, version>>}]
    /\ UNCHANGED kubeVars

\* Cluster capsules: one namespace, any calls of the manager on it
InitKube ==
    /\ kube = IdleKube
    /\ net = IdleNet /\ caps = IdleCaps /\ oper = IdleOper
    /\ mnt = IdleMount
    /\ QuietHost

NextKube ==
    \/ \E n \in KubeNames, v \in KubeVersions : CreateConfigMapCapsule(n, v)
    \/ \E n \in KubeNames, v \in KubeVersions : CreateSecretCapsule(n, v)
    \/ \E n \in KubeNames, v \in KubeVersions : DeleteCapsule(n, v)

SpecKube == InitKube /\ [][NextKube]_vars

\* ----------------------------------------------- ResourceCapsuleOperator
\* ResourceCapsules with a valid spec (version, data, type configmap, no
\* rollback), each with its ConfigMap <name>-<version>.
operVars == <<env, clock, mnt, net, caps, kube, osVars, diskVars, runs, stat, exc, histVars>>

\* the API server sends an event to the watch that is open
Emit(o, type, name) ==
    IF o.watch = "open" THEN [o EXCEPT !.events = Append(@, [type |-> type, name |-> name])]
    ELSE o

\* the Added events a new watch starts with: one for each resource there is
RECURSIVE InitialEvents(_, _)
InitialEvents(o, names) ==
    IF names = {} THEN <<>>
    ELSE LET n == CHOOSE x \in names : TRUE
         IN (IF o.res[n].exists THEN <<[type |-> "Added", name |-> n]>> ELSE <<>>)
            \o InitialEvents(o, names \ {n})

\* Start: Watch(ListOptions{}), which first sends Added for what exists, and
\* the goroutine; or the error of Watch returned, and the command returns
operator_Start ==
    /\ oper.proc = "created"
    /\ \/ oper' = [oper EXCEPT !.proc = "running", !.watch = "open", !.loop = "running",
                                !.events = InitialEvents(oper, OperNames)]
       \/ oper' = [oper EXCEPT !.proc = "exited"]
    /\ UNCHANGED operVars

\* Stop: close(op.stopCh)
operator_Stop ==
    /\ oper.proc = "running" /\ ~oper.stopped
    /\ oper' = [oper EXCEPT !.stopped = TRUE]
    /\ UNCHANGED operVars

\* createUnderlyingResource: ConfigMaps.Create, an error when the name is taken
createUnderlyingResource(o, n) ==
    [ok |-> n \notin o.configMaps, o |-> [o EXCEPT !.configMaps = @ \cup {n}]]

\* updateStatus: UpdateStatus on the resource; the server sends Modified when
\* the status differs from the one it had; NotFound when the resource is gone
updateStatus(o, n, phase) ==
    IF ~o.res[n].exists THEN o
    ELSE LET u == [o EXCEPT !.res[n].phase = phase]
         IN IF o.res[n].phase # phase THEN Emit(u, "Modified", n) ELSE u

\* handleResourceCapsuleAdded: createUnderlyingResource, then updateStatus
\* "Failed" on its error, "Active" otherwise
handleResourceCapsuleAdded(o, n) ==
    LET c == createUnderlyingResource(o, n)
    IN updateStatus(c.o, n, IF c.ok THEN "Active" ELSE "Failed")

\* handleResourceCapsuleModified: no rollback asked for, the add logic again
handleResourceCapsuleModified(o, n) == handleResourceCapsuleAdded(o, n)

\* handleResourceCapsuleDeleted: deleteUnderlyingResource
handleResourceCapsuleDeleted(o, n) == [o EXCEPT !.configMaps = @ \ {n}]

\* the goroutine of Start: an event from watcher.ResultChan(), handleEvent
operator_HandleEvent ==
    /\ oper.loop = "running" /\ oper.events # <<>>
    /\ LET ev == Head(oper.events)
           n == ev.name
           o == [oper EXCEPT !.events = Tail(@)]
           h == IF ev.type = "Added" THEN handleResourceCapsuleAdded(o, n)
                ELSE IF ev.type = "Modified" THEN handleResourceCapsuleModified(o, n)
                ELSE handleResourceCapsuleDeleted(o, n)
       IN oper' = [h EXCEPT !.activated =
                          IF ev.type = "Added" /\ h.res[n].exists /\ h.res[n].phase = "Active"
                          THEN @ \cup {n} ELSE @]
    /\ UNCHANGED operVars

\* the goroutine of Start: ResultChan() is closed: "Watch channel closed,
\* restarting..." and return; main stays in select {}
operator_ChannelClosed ==
    /\ oper.loop = "running" /\ oper.watch = "closed" /\ oper.events = <<>>
    /\ oper' = [oper EXCEPT !.loop = "returned"]
    /\ UNCHANGED operVars

\* the goroutine of Start: <-op.stopCh, return, the deferred watcher.Stop()
operator_Stopped ==
    /\ oper.loop = "running" /\ oper.stopped
    /\ oper' = [oper EXCEPT !.loop = "returned", !.watch = "closed", !.events = <<>>]
    /\ UNCHANGED operVars

\* the API server ends the watch (its timeout, a lost connection)
server_CloseWatch ==
    /\ oper.watch = "open" /\ oper.events = <<>>
    /\ oper' = [oper EXCEPT !.watch = "closed"]
    /\ UNCHANGED operVars

\* a user creates a ResourceCapsule
user_Apply(n) ==
    /\ oper.proc # "none" /\ ~oper.res[n].exists /\ Len(oper.events) < MaxEvents
    /\ oper' = Emit([oper EXCEPT !.res[n] = [exists |-> TRUE, phase |-> ""]], "Added", n)
    /\ UNCHANGED operVars

\* a user deletes a ResourceCapsule
user_Delete(n) ==
    /\ oper.res[n].exists /\ Len(oper.events) < MaxEvents
    /\ oper' = Emit([oper EXCEPT !.res[n] = NoResource, !.activated = @ \ {n}], "Deleted", n)
    /\ UNCHANGED operVars

\* Operator: "k8s-crd operator start", NewResourceCapsuleOperator has returned;
\* the namespace may hold ResourceCapsules already
InitOper ==
    /\ \E r \in [OperNames -> {NoResource, [exists |-> TRUE, phase |-> ""]}] :
          oper = [IdleOper EXCEPT !.proc = "created", !.res = r]
    /\ net = IdleNet /\ caps = IdleCaps /\ kube = IdleKube
    /\ mnt = IdleMount
    /\ QuietHost

NextOper ==
    \/ operator_Start
    \/ operator_Stop
    \/ operator_HandleEvent
    \/ operator_ChannelClosed
    \/ operator_Stopped
    \/ server_CloseWatch
    \/ \E n \in OperNames : user_Apply(n)
    \/ \E n \in OperNames : user_Delete(n)

SpecOper == InitOper /\ [][NextOper]_vars

\* the Go scheduler runs the goroutine whenever it can take a step
SpecOperLive ==
    /\ SpecOper
    /\ WF_vars(operator_HandleEvent)
    /\ WF_vars(operator_ChannelClosed)
    /\ WF_vars(operator_Stopped)

\* --------------------------------------------- mountLayeredFilesystem
\* filepath.Walk visits a directory before its entries, entries in lexical order
WalkOrder == <<"d", "d/f", "g">>

\* copyFile onto an existing file that leaves the file as it was
copyFile_KeepExisting(data, old) == IF old = "none" THEN data ELSE old

\* copyFile: os.ReadFile(src), os.WriteFile(dst, data, 0755); the
\* destination, there or not, ends with the data read
copyFile(data, old) == data

\* copyDir's walk function from the i-th path on: os.MkdirAll for a directory
\* (ENOTDIR when a file is in the way), copyFile for a file (EISDIR when a
\* directory is in the way); the first error ends the walk
RECURSIVE copyDir_Walk(_, _, _)
copyDir_Walk(src, dst, i) ==
    IF i > Len(WalkOrder) THEN [err |-> FALSE, tree |-> dst]
    ELSE LET p == WalkOrder[i]
         IN IF src[p] = "none" THEN copyDir_Walk(src, dst, i + 1)
            ELSE IF src[p] = "dir"
                 THEN IF dst[p] \in Contents
                      THEN [err |-> TRUE, tree |-> dst]
                      ELSE copyDir_Walk(src, [dst EXCEPT ![p] = "dir"], i + 1)
                 ELSE IF dst[p] = "dir"
                      THEN [err |-> TRUE, tree |-> dst]
                      ELSE copyDir_Walk(src, [dst EXCEPT ![p] = copyFile(src[p], dst[p])], i + 1)

\* copyDir(src, dst): Lstat of a source that is not there is the walk's
\* first error
copyDir(src, dst) ==
    IF ~src.exists THEN [err |-> TRUE, tree |-> dst.e]
    ELSE copyDir_Walk(src.e, dst.e, 1)

mountVars == <<env, clock, libVars, osVars, diskVars, runs, stat, exc, histVars>>

\* os.RemoveAll(rootfs) that leaves the target as it is
mount_RemoveAll_Skipped ==
    /\ mnt.pc = "clear"
    /\ \/ mnt' = [mnt EXCEPT !.pc = "mkdir"]
       \/ mnt' = [mnt EXCEPT !.pc = "done", !.err = TRUE]
    /\ UNCHANGED mountVars

\* mountLayeredFilesystem: os.RemoveAll(rootfs), or its error returned
mount_RemoveAll ==
    /\ mnt.pc = "clear"
    /\ \/ mnt' = [mnt EXCEPT !.pc = "mkdir", !.T = Missing]
       \/ mnt' = [mnt EXCEPT !.pc = "done", !.err = TRUE]
    /\ UNCHANGED mountVars

\* mountLayeredFilesystem: os.MkdirAll(rootfs, 0755), or its error returned
mount_MkdirAll ==
    /\ mnt.pc = "mkdir"
    /\ \/ mnt' = [mnt EXCEPT !.pc = "apply", !.T = [exists |-> TRUE, e |-> @.e]]
       \/ mnt' = [mnt EXCEPT !.pc = "done", !.err = TRUE]
    /\ UNCHANGED mountVars

\* mountLayeredFilesystem: one turn of the loop over layers,
\* copyDir(layersDir/layerID, rootfs); an error is returned at once
mount_CopyLayer ==
    /\ mnt.pc = "apply"
    /\ mnt.i <= Len(mnt.layers)
    /\ LET c == copyDir(mnt.store[mnt.layers[mnt.i]], mnt.T)
       IN mnt' = [mnt EXCEPT !.T = Dir(c.tree),
                             !.i = IF c.err THEN @ ELSE @ + 1,
                             !.pc = IF c.err THEN "done" ELSE @,
                             !.err = c.err]
    /\ UNCHANGED mountVars

\* mountLayeredFilesystem: return nil after the last layer
mount_Return ==
    /\ mnt.pc = "apply"
    /\ mnt.i > Len(mnt.layers)
    /\ mnt' = [mnt EXCEPT !.pc = "done"]
    /\ UNCHANGED mountVars

\* layer id lists of up to MaxList ids
LayerLists == UNION {[1..n -> LayerNames] : n \in 0..MaxList}

\* what the target can hold beforehand: nothing, or a tree with a stale g
StaleDirs == {Missing} \cup {Dir(t) : t \in {u \in Trees : u["g"] = "b"}}

\* Mounting: one mountLayeredFilesystem call, on any layers directory, any
\* list of layer ids and a target that may hold an earlier tree
InitMount ==
    /\ \E st \in [LayerNames -> Dirs], ls \in LayerLists, t0 \in StaleDirs :
          mnt = [IdleMount EXCEPT !.pc = "clear", !.store = st, !.layers = ls,
                                  !.T = t0, !.T0 = t0]
    /\ LibIdle
    /\ env = [inContainer |-> FALSE, hasNamespacePrivileges |-> TRUE, hasCgroupAccess |-> FALSE,
              isRoot |-> TRUE, hasBusybox |-> TRUE]
    /\ clock = 1
    /\ nextPid = FirstPid
    /\ alive = {InitPid}
    /\ pidFile = [id \in ContainerIDs |-> NoFile]
    /\ containerDir = {}
    /\ rootfs = [id \in ContainerIDs |-> NoDir]
    /\ imageFS = [name \in ImageNames |-> NoDir]
    /\ layerFS = [l \in LayerIDs |-> NoDir]
    /\ layerMeta = {}
    /\ runs = <<>>
    /\ stat = IdleStat
    /\ exc = IdleExec
    /\ resolved = [ref \in ImageRefs |-> NoPath]
    /\ partial = {}

NextMount ==
    \/ mount_RemoveAll
    \/ mount_MkdirAll
    \/ mount_CopyLayer
    \/ mount_Return

SpecMount == InitMount /\ [][NextMount]_vars

\* ------------------------------------------------------------------ claims
\* a PID file content that names a process id none of the processes in live has
NamesNoProcess(content, live) ==
    /\ content # NoFile
    /\ ~Atoi(TrimSpace(content)).err
    /\ Atoi(TrimSpace(content)).val \notin live

\* C1: while run waits for the contained process, the container's PID file
\* holds the process id of that contained (child) process.
C1_PidFileHoldsChildPid ==
    \A r \in DOMAIN runs :
        runs[r].pc = "wait" => pidFile[runs[r].cid] = itoa(runs[r].child)

\* C2: a run whose PID file write failed exits non-zero, and no run completes
\* with a contained process started and no PID file for its container.
C2_NoStartedContainerWithoutPidFile ==
    \A r \in DOMAIN runs :
        /\ (runs[r].writeFailed => runs[r].pc = "exited" /\ runs[r].exit # 0)
        /\ (runs[r].pc = "exited" /\ runs[r].exit \in {0, 1} /\ runs[r].child # NoPid)
              => pidFile[runs[r].cid] # NoFile

\* C3: a status call made while the contained process of the container is
\* alive answers Running; one made after it is gone answers Stopped.
C3_StatusFollowsContainedProcess ==
    stat.pc = "done" =>
        \A r \in DOMAIN runs :
            (runs[r].cid = stat.id /\ runs[r].child # NoPid) =>
                /\ (runs[r].child \in stat.live0 /\ runs[r].child \in alive)
                      => stat.result = "Running"
                /\ (runs[r].child \in stat.gone0 => stat.result = "Stopped")

\* C4: status(id) is Stopped when id has no PID file, and when its PID file
\* names a process that does not exist.
C4_StoppedWithoutProcess ==
    (/\ stat.pc = "done"
     /\ \/ pidFile[stat.id] = NoFile
        \/ NamesNoProcess(stat.snap, stat.live0) /\ pidFile[stat.id] = stat.snap)
        => stat.result = "Stopped" /\ stat.exit = 0

\* C4 witness: status has answered Stopped for a container whose PID file a
\* run wrote and whose recorded process is gone
C4_Witness ==
    /\ stat.pc = "done" /\ stat.result = "Stopped"
    /\ \E r \in DOMAIN runs :
          /\ runs[r].cid = stat.id
          /\ stat.snap = itoa(runs[r].pid)
          /\ pidFile[stat.id] = stat.snap
          /\ runs[r].pid \notin stat.live0

\* C5: whatever point run has reached, a status call ends with Running or
\* Stopped and does not abort.
C5_StatusNeverAborts ==
    stat.pc = "done" => stat.exit = 0 /\ stat.result \in {"Running", "Stopped"}

\* C6: exec against a container whose PID file is absent, or names a process
\* that no longer exists, exits with an error, never reaches the nsenter
\* call it could block in, and does not execute the command.
C6_ExecNotRunning ==
    (/\ exc.pc # "idle"
     /\ \/ pidFile[exc.id] = NoFile
        \/ NamesNoProcess(exc.snap, exc.live0) /\ pidFile[exc.id] = exc.snap)
        => /\ exc.pc # "nsenter"
           /\ ~exc.executed
           /\ (exc.pc = "done" => exc.exit = 1)

\* C6 witness: exec has failed on a container whose PID file a run wrote and
\* whose recorded process is gone
C6_Witness ==
    /\ exc.pc = "done" /\ exc.exit = 1 /\ ~exc.executed
    /\ \E r \in DOMAIN runs :
          /\ runs[r].cid = exc.id
          /\ exc.snap = itoa(runs[r].pid)
          /\ pidFile[exc.id] = exc.snap
          /\ runs[r].pid \notin exc.live0

\* C7: no resolve treats as locally available an image whose pull failed
\* after the manifest was fetched.
C7_NoPartialImageVisible ==
    \A r \in DOMAIN runs : runs[r].local => ~runs[r].sawPartial

\* C8: a resolve of a reference that was resolved successfully before
\* fetches nothing from the registry and yields the same rootfs path.
C8_ResolveIdempotent ==
    \A r \in DOMAIN runs :
        runs[r].sawResolved =>
            /\ ~runs[r].fetched
            /\ (runs[r].path # NoPath => runs[r].path = resolved[runs[r].img])

\* C9: a run whose pull failed has exited with status 1 and has launched no
\* contained process (nor created a container).
C9_PullFailureIsFatal ==
    \A r \in DOMAIN runs :
        runs[r].pullErr =>
            /\ runs[r].pc = "exited" /\ runs[r].exit = 1
            /\ runs[r].child = NoPid /\ runs[r].cid = NoCid

\* C9 witness: a run has failed in a pull that had fetched a layer, and
\* launched nothing
C9_Witness ==
    \E r \in DOMAIN runs :
        /\ runs[r].pullErr /\ runs[r].pc = "exited" /\ runs[r].exit = 1
        /\ ~runs[r].local /\ runs[r].events # <<>> /\ runs[r].child = NoPid

\* C10: the manifest a pull works from lists the digests in the order of the
\* registry's JSON answer, and the pull fetches and then extracts each digest
\* in that order, the extracted entries being in the target rootfs before
\* the next fetch.
C10_LayersInManifestOrder ==
    \A r \in DOMAIN runs :
        LET json == ManifestJSON(RegistryOf(runs[r].img), RepoOf(runs[r].img))
            man == runs[r].manifest
            ev == runs[r].events
        IN runs[r].fetched /\ runs[r].pc \notin {"pull_manifest"} /\ ~(runs[r].pc = "exited" /\ man = <<>>) =>
              /\ Len(man) = Len(json.layers)
              /\ \A i \in 1..Len(man) : man[i] = json.layers[i].digest
              /\ Len(ev) <= 2 * Len(man)
              /\ \A k \in 1..Len(ev) :
                    /\ ev[k] = <<IF k % 2 = 1 THEN "fetch" ELSE "extract", man[(k + 1) \div 2]>>
                    /\ (k % 2 = 0) => LayerEntries(ev[k][2]) \subseteq imageFS[PullRootFS(RepoOf(runs[r].img))]

\* C10 witness: a pull has fetched and extracted every layer of a manifest
\* of at least two layers
C10_Witness ==
    \E r \in DOMAIN runs :
        /\ Len(runs[r].manifest) >= 2
        /\ Len(runs[r].events) = 2 * Len(runs[r].manifest)

\* C11: whenever a run launches its contained process, the rootfs directory
\* of its container exists and is not empty.
C11_RootfsNonEmptyAtLaunch ==
    [][\A r \in DOMAIN runs :
          (runs[r].child = NoPid /\ runs'[r].child # NoPid)
              => (rootfs[runs[r].cid] # NoDir /\ rootfs[runs[r].cid] # {})]_vars

\* C12: every layer id that has a metadata sidecar has its directory, fully
\* populated.
C12_SidecarOnlyForPopulatedLayer ==
    \A id \in layerMeta :
        /\ layerFS[id] # NoDir
        /\ (id = BaseLayerID => (BaseDirs \cup BaseBins) \subseteq layerFS[id])

\* C15: no two run invocations are populating (or clearing) a container
\* rootfs at the same time under the same container id.
C15_NoSharedTargetRootfs ==
    \A r1, r2 \in DOMAIN runs :
        (/\ r1 # r2
         /\ runs[r1].pc \in {"copy", "mount"}
         /\ runs[r2].pc \in {"copy", "mount"})
            => runs[r1].cid # runs[r2].cid

\* C19: a run that has exited with status 0 had launched a contained process
\* and that process has ended.
C19_ExitsOnlyAfterContainedProcess ==
    \A r \in DOMAIN runs :
        (runs[r].pc = "exited" /\ runs[r].exit = 0)
            => (runs[r].child # NoPid /\ runs[r].child \notin alive)

\* C16: the tier a run launches its contained process in is the one the
\* probed triple selects: full isolation exactly when the host grants
\* namespaces and the launcher is not itself in a container.
C16_TierFollowsProbedTriple ==
    \A r \in DOMAIN runs :
        runs[r].child # NoPid
            => (runs[r].tier = "full" <=> (env.hasNamespacePrivileges /\ ~env.inContainer))

\* C17: on a host whose control groups are usable, every run that launched
\* its contained process has set the container's control group, whichever
\* tier it launched in.
C17_CgroupsOnEveryTier ==
    \A r \in DOMAIN runs :
        (runs[r].child # NoPid /\ env.hasCgroupAccess) => runs[r].cg = "set"

\* C18: a run that was given a command and ended without launching it ended
\* on a failed file operation, never on a capability the environment lacks.
C18_CapabilityGapNeverFatal ==
    \A r \in DOMAIN runs :
        (runs[r].pc = "exited" /\ runs[r].hasCmd /\ runs[r].child = NoPid)
            => runs[r].cause = "io"

\* the indexes of the layers of the list that define path p
Definers(p) == {i \in 1..Len(mnt.layers) : mnt.store[mnt.layers[i]].e[p] # "none"}
Highest(S) == CHOOSE i \in S : \A j \in S : j <= i

C14_TargetCleared ==
    (mnt.pc = "done" /\ ~mnt.err) =>
        \A p \in Paths : mnt.T.e[p] # "none" => Definers(p) # {}

\* the target held g and d/f beforehand, the one layer applied has neither,
\* and the mount has returned nil
C14_Witness ==
    /\ mnt.pc = "done" /\ ~mnt.err
    /\ mnt.T0.exists /\ mnt.T0.e["g"] = "b" /\ mnt.T0.e["d/f"] = "b"
    /\ Len(mnt.layers) = 1
    /\ Definers("g") = {} /\ Definers("d/f") = {} /\ Definers("d") # {}
    /\ mnt.T.e["g"] = "none"

\* C20: a ps that met a runtime error ends with a non-zero exit status.
C20_ErrorExitsNonZero ==
    (stat.lc = "done" /\ stat.lcErr) => stat.lcExit # 0

\* C21: the rootfs a run has produced from a locally resolved image has every
\* top-level directory of initializeBaseLayer: bin, dev, etc, proc, sys, tmp.
C21_RootfsHasBaseDirs ==
    \A r \in DOMAIN runs :
        (runs[r].local /\ runs[r].pc \in {"launch", "wait"})
            => (rootfs[runs[r].cid] # NoDir /\ BaseDirs \subseteq rootfs[runs[r].cid])

\* the networks that exist in this process under the ID, by index
NetworksWithID(id) == {i \in DOMAIN net.mem : net.mem[i].ID = id}

\* C22: a ping succeeds exactly when some network with the given ID has both
\* containers attached.
C22_PingIffBothAttached ==
    net.ping # <<>> =>
        LET p == net.ping[1]
        IN p.ok <=> \E i \in NetworksWithID(p.id) :
                        {p.a, p.b} \subseteq DOMAIN net.mem[i].Containers

\* two networks, a container in each, a ping between the two has failed
C22_Witness ==
    /\ net.ping # <<>> /\ ~net.ping[1].ok
    /\ net.ping[1].a # net.ping[1].b
    /\ Len(net.mem) = 2
    /\ \E i, j \in DOMAIN net.mem :
          /\ i # j
          /\ net.mem[i].ID = net.ping[1].id
          /\ net.ping[1].a \in DOMAIN net.mem[i].Containers
          /\ net.ping[1].b \in DOMAIN net.mem[j].Containers

\* C23: no two networks that exist have the same ID.
C23_NetworkIDsUnique ==
    \A i, j \in DOMAIN net.mem : net.mem[i].ID = net.mem[j].ID => i = j

\* C24: no two containers attached to the same network have the same address.
C24_AddressesUnique ==
    net.ver = "crd" =>
        \A i \in DOMAIN net.mem :
            \A a, b \in DOMAIN net.mem[i].Containers :
                net.mem[i].Containers[a] = net.mem[i].Containers[b] => a = b

\* C25: once a call has returned, networks.json holds the networks, IDs and
\* attachments the process has, so that a new process loads exactly them.
C25_NetworksSurviveRestart ==
    Decoded(net.file) = net.mem

\* C26: GetCapsule(n, v) finds a capsule exactly when one was added under n
\* and v, and then it is the one added last under them, with that Name,
\* Version and Path.
C26_GetReturnsWhatWasAdded ==
    caps.got # <<>> =>
        LET g == caps.got[1]
            mine == {a \in caps.added : a.Name = g.name /\ a.Version = g.version}
        IN /\ g.exists <=> mine # {}
           /\ g.exists => g.capsules = mine

\* C27: a capsule DeleteCapsule returned nil for cannot be retrieved, neither
\* as a ConfigMap nor as a Secret, until one is created under its name and
\* version again.
C27_DeletedCapsuleIsGone ==
    \A d \in kube.deleted :
        ~GetConfigMapCapsule(d[1], d[2]) /\ ~GetSecretCapsule(d[1], d[2])

\* C28: once the operator has handled the Added event of a resource and set
\* its phase to Active, and no user has touched the resource since, the
\* phase is Active.
C28_ActiveStaysActive ==
    \A n \in oper.activated : oper.res[n].phase = "Active"

\* a ResourceCapsule exists and has no status yet, the operator process
\* running and not stopped
Unhandled(n) ==
    /\ oper.proc = "running" /\ ~oper.stopped
    /\ oper.res[n].exists /\ oper.res[n].phase = ""

\* C29: while the operator runs and Stop has not been called, a
\* ResourceCapsule waiting to be handled is eventually handled, also when
\* the watch channel was closed before.
C29_EventsAfterCloseHandled ==
    \A n \in OperNames : Unhandled(n) ~> ~Unhandled(n)

\* C30: a rootfs a run has just mounted from the base layer holds the
\* complete base layer, its directories and its binaries, also when another
\* run is initializing the base layer at that time.
C30_RootfsFromCompleteBaseLayer ==
    [][\A r \in DOMAIN runs :
          (runs[r].pc = "mount" /\ runs'[r].pc = "pid_create")
              => (BaseDirs \cup BaseBins) \subseteq rootfs'[runs[r].cid]]_vars

====
